---------------------------- MODULE Spec2Model ----------------------------
(***************************************************************************)
(* OllamaDiscordBot.py: a Discord bot that relays ask prompts to an      *)
(* Ollama HTTP backend and keeps a per-user language preference.           *)
(*                                                                         *)
(* Text is modelled by TLA+ strings (Len, \o and SubSeq act on them as on  *)
(* Python str); a decoded JSON value is a tagged record; a Python          *)
(* exception is its class name, with Mro giving the classes an 'except'    *)
(* clause matches.                                                         *)
(***************************************************************************)
EXTENDS Integers, Sequences, FiniteSets, TLC

(***************************************************************************)
(* Bounds of the model.                                                    *)
(***************************************************************************)
\* users that send commands
NumUsers == 2
\* 'ask' handlers started in one run of the concurrent specification
MaxAsks == 2
\* 'ask' handlers started in one run of the relay specification
RelayAsks == 1

Users == 1..NumUsers

(***************************************************************************)
(* Configuration (config.json) and module constants.                       *)
(***************************************************************************)
API_URL == "http://localhost:11434/api/chat"
PREFIX == "!"
SHORT_ANSWER_PROMPT ==
    "Give me a short answer but don't mention that I've asked you to make it short."
\* Discord's message limit as tested by ask_ollama, and the length it keeps
DiscordLimit == 2000
TruncateTo == 1997
ELLIPSIS == "..."

(***************************************************************************)
(* Python str operations.                                                  *)
(***************************************************************************)
Char(s, i) == SubSeq(s, i, i)

Whitespace == {" ", "\t", "\n", "\r"}

SetMin(S) == CHOOSE m \in S : \A k \in S : m <= k

RECURSIVE FirstBlack(_, _)
\* the index of the first character of s at or after i that is not whitespace
\* (Len(s) + 1 when there is none)
FirstBlack(s, i) ==
    IF i > Len(s) \/ Char(s, i) \notin Whitespace THEN i ELSE FirstBlack(s, i + 1)

RECURSIVE LastBlack(_, _)
\* the index of the last character of s at or before i that is not whitespace
\* (0 when there is none)
LastBlack(s, i) ==
    IF i < 1 \/ Char(s, i) \notin Whitespace THEN i ELSE LastBlack(s, i - 1)

\* str.strip(): drop leading and trailing whitespace
Strip(s) == SubSeq(s, FirstBlack(s, 1), LastBlack(s, Len(s)))

UpperLetters == "ABCDEFGHIJKLMNOPQRSTUVWXYZ"
LowerLetters == "abcdefghijklmnopqrstuvwxyz"

\* the letters str.lower() changes, each with the letter it becomes
LowerOf ==
    [c \in {Char(UpperLetters, i) : i \in 1..Len(UpperLetters)} |->
        Char(LowerLetters, CHOOSE i \in 1..Len(UpperLetters) : Char(UpperLetters, i) = c)]

LowerChar(c) == IF c \in DOMAIN LowerOf THEN LowerOf[c] ELSE c

RECURSIVE LowerFrom(_, _)
LowerFrom(s, i) ==
    IF i > Len(s) THEN "" ELSE LowerChar(Char(s, i)) \o LowerFrom(s, i + 1)

\* str.lower()
Lower(s) == LowerFrom(s, 1)

\* 'sub in s' for two str
Contains(s, sub) ==
    \E i \in 1..(Len(s) - Len(sub) + 1) : SubSeq(s, i, i + Len(sub) - 1) = sub

StartsWith(s, pre) == Len(pre) <= Len(s) /\ SubSeq(s, 1, Len(pre)) = pre

\* s[:n]
Prefix(s, n) == SubSeq(s, 1, IF n < Len(s) THEN n ELSE Len(s))

RECURSIVE Repeat(_, _)
\* s * n
Repeat(s, n) ==
    IF n <= 0 THEN ""
    ELSE LET half == Repeat(s, n \div 2)
         IN  IF n % 2 = 0 THEN half \o half ELSE half \o half \o s

\* a text of exactly n characters whose prefixes differ from one another
Filler(n) == Prefix(Repeat("0123456789", (n \div 10) + 1), n)

(***************************************************************************)
(* Decoded JSON values (what response.json() can return).                  *)
(***************************************************************************)
JStr(s) == [t |-> "str", s |-> s]
JNum(n) == [t |-> "num", n |-> n]
JNull == [t |-> "null"]
JBool(b) == [t |-> "bool", b |-> b]
\* a JSON array: the sequence of its items
JList(items) == [t |-> "list", items |-> items]
\* a JSON object: the function from its keys to their values
JObj(f) == [t |-> "obj", f |-> f]
NoFields == [k \in {} |-> JNull]

\* the outcome of evaluating a Python expression: a value or a raised exception
Val(v) == [ok |-> TRUE, v |-> v]
Raise(e) == [ok |-> FALSE, exc |-> e]

\* 'key in container' for a str key
PyIn(key, c) ==
    CASE c.t = "obj"  -> Val(key \in DOMAIN c.f)
      [] c.t = "list" -> Val(\E i \in 1..Len(c.items) :
                                c.items[i].t = "str" /\ c.items[i].s = key)
      [] c.t = "str"  -> Val(Contains(c.s, key))
      [] OTHER        -> Raise("TypeError")

\* 'container[key]' for a str key
PyGetItem(c, key) ==
    CASE c.t = "obj"  -> IF key \in DOMAIN c.f THEN Val(c.f[key]) ELSE Raise("KeyError")
      [] OTHER        -> Raise("TypeError")

\* 'value.strip()'
PyStrip(v) == IF v.t = "str" THEN Val(Strip(v.s)) ELSE Raise("AttributeError")

(***************************************************************************)
(* Exceptions.  Mro(cls) is the set of classes an instance of cls is an    *)
(* instance of, as far as the except clauses of call_ollama_api tell them  *)
(* apart.  requests.exceptions.JSONDecodeError (raised by response.json()  *)
(* since requests 2.27) derives from both InvalidJSONError, a              *)
(* RequestException, and json.JSONDecodeError; older releases raise        *)
(* json.JSONDecodeError itself.                                            *)
(***************************************************************************)
Mro(cls) ==
    CASE cls = "ReadTimeout" ->
            {"ReadTimeout", "Timeout", "RequestException", "OSError", "Exception"}
      [] cls = "ConnectTimeout" ->
            {"ConnectTimeout", "ConnectionError", "Timeout", "RequestException",
             "OSError", "Exception"}
      [] cls = "ConnectionError" ->
            {"ConnectionError", "RequestException", "OSError", "Exception"}
      [] cls = "HTTPError" ->
            {"HTTPError", "RequestException", "OSError", "Exception"}
      [] cls = "requests.JSONDecodeError" ->
            {"requests.JSONDecodeError", "InvalidJSONError", "RequestException",
             "OSError", "json.JSONDecodeError", "ValueError", "Exception"}
      [] cls = "json.JSONDecodeError" ->
            {"json.JSONDecodeError", "ValueError", "Exception"}
      [] cls = "KeyError" -> {"KeyError", "LookupError", "Exception"}
      [] OTHER -> {cls, "Exception"}

\* str(e), as interpolated into the messages that quote the error
ExcText(cls) ==
    CASE cls = "ConnectionError" -> "Connection refused"
      [] cls = "HTTPError" -> "500 Server Error: Internal Server Error for url: " \o API_URL
      [] cls = "requests.JSONDecodeError" -> "Expecting value: line 1 column 1 (char 0)"
      [] cls = "json.JSONDecodeError" -> "Expecting value: line 1 column 1 (char 0)"
      [] cls = "TypeError" -> "argument is not iterable or has no str index"
      [] cls = "AttributeError" -> "object has no attribute 'strip'"
      [] OTHER -> cls

(***************************************************************************)
(* call_ollama_api                                                         *)
(***************************************************************************)
MsgUnexpectedFormat == "Error: Received an unexpected response format from the AI."
MsgTimeout == "Error: The request to the AI timed out."
MsgInvalid == "Error: Received an invalid response from the AI."
MsgIncomplete == "Error: Received an incomplete response format from the AI."
MsgCouldNotConnect(cls) ==
    "Error: Could not connect to the AI service at " \o API_URL \o ". Details: " \o ExcText(cls)
MsgCatchAll(cls) ==
    "An unexpected error occurred while contacting the AI. Details: " \o ExcText(cls)

\* response_data['message']['content'].strip()
MessageContent(d) ==
    LET m == PyGetItem(d, "message")
    IN  IF ~m.ok THEN m
        ELSE LET c == PyGetItem(m.v, "content")
             IN  IF ~c.ok THEN c ELSE PyStrip(c.v)

\* 'message' in response_data and 'content' in response_data['message']
HasMessageContent(d) ==
    LET a == PyIn("message", d)
    IN  IF ~a.ok \/ ~a.v THEN a
        ELSE LET m == PyGetItem(d, "message")
             IN  IF ~m.ok THEN m ELSE PyIn("content", m.v)

\* Extract with the two shapes tested in the other order
ExtractResponseFirst(d) ==
    LET c2 == PyIn("response", d)
    IN  IF ~c2.ok THEN c2
        ELSE IF c2.v
             THEN LET r == PyGetItem(d, "response")
                  IN  IF ~r.ok THEN r ELSE PyStrip(r.v)
             ELSE LET c1 == HasMessageContent(d)
                  IN  IF ~c1.ok THEN c1
                      ELSE IF c1.v THEN MessageContent(d)
                      ELSE Val(MsgUnexpectedFormat)

\* the if / elif / else over response_data
Extract(d) ==
    LET c1 == HasMessageContent(d)
    IN  IF ~c1.ok THEN c1
        ELSE IF c1.v THEN MessageContent(d)
        ELSE LET c2 == PyIn("response", d)
             IN  IF ~c2.ok THEN c2
                 ELSE IF c2.v
                      THEN LET r == PyGetItem(d, "response")
                           IN  IF ~r.ok THEN r ELSE PyStrip(r.v)
                      ELSE Val(MsgUnexpectedFormat)

(***************************************************************************)
(* What the executor's requests.post can come back with: an exception of   *)
(* requests, or a response with a status and a body that response.json()   *)
(* decodes to a value or fails to decode.                                  *)
(***************************************************************************)
PostRaises(cls) == [kind |-> "raise", exc |-> cls]
Response(status, decoded) == [kind |-> "response", status |-> status, json |-> decoded]

\* response.raise_for_status()
RaiseForStatus(status) == status >= 400 /\ status < 600

\* the body of the try block, from the await to the return
TryBody(o) ==
    IF o.kind = "raise" THEN Raise(o.exc)
    ELSE IF RaiseForStatus(o.status) THEN Raise("HTTPError")
    ELSE IF ~o.json.ok THEN o.json
    ELSE Extract(o.json.v)

\* the except clauses without the final 'except Exception'
HandlersNoCatchAll == <<"Timeout", "RequestException", "json.JSONDecodeError", "KeyError">>

\* the except clauses with RequestException tried before Timeout
HandlersTransportFirst ==
    <<"RequestException", "Timeout", "json.JSONDecodeError", "KeyError", "Exception">>

\* the except clauses, in the order they are written
Handlers == <<"Timeout", "RequestException", "json.JSONDecodeError", "KeyError", "Exception">>

HandlerText(h, cls) ==
    CASE h = "Timeout" -> MsgTimeout
      [] h = "RequestException" -> MsgCouldNotConnect(cls)
      [] h = "json.JSONDecodeError" -> MsgInvalid
      [] h = "KeyError" -> MsgIncomplete
      [] OTHER -> MsgCatchAll(cls)

\* what the coroutine ends with: a returned str, or an exception that leaves it
Returned(text) == [raised |-> FALSE, text |-> text, exc |-> ""]
Escaped(cls) == [raised |-> TRUE, text |-> "", exc |-> cls]

\* the except clause that catches an exception of class cls: the first, in
\* the order written, that names one of its classes (0: none)
CatchingHandler(cls) ==
    LET hs == {i \in 1..Len(Handlers) : Handlers[i] \in Mro(cls)}
    IN  IF hs = {} THEN 0 ELSE SetMin(hs)

\* what the try statement ends with when its body ended with r
AfterTry(r) ==
    IF r.ok THEN Returned(r.v)
    ELSE IF CatchingHandler(r.exc) = 0 THEN Escaped(r.exc)
    ELSE Returned(HandlerText(Handlers[CatchingHandler(r.exc)], r.exc))

call_ollama_api(o) == AfterTry(TryBody(o))

(***************************************************************************)
(* ask_ollama after the relay, set_language, on_command_error              *)
(***************************************************************************)
MsgNoResponse == "The AI didn't provide a response."
MsgInvokeError == "An error occurred while running this command."
\* the message quotes with the grave accent, which a TLA+ string cannot hold
QUOTE == "'"
MsgMissingArgument(command) ==
    "You missed an argument for the " \o QUOTE \o command \o QUOTE \o " command. Check "
        \o QUOTE \o PREFIX \o "help " \o command \o QUOTE \o "."
MsgLanguageReset == "Okay, I'll use the default language (English) for your prompts."
MsgLanguageSet(language_name) ==
    "Okay, I will write my answers in " \o language_name \o " for your future prompts."

\* Adapt cutting a text that is exactly as long as the limit
AdaptAtLimit(response_text) ==
    IF Len(response_text) >= DiscordLimit THEN Prefix(response_text, TruncateTo) \o ELLIPSIS
    ELSE IF response_text = "" THEN MsgNoResponse
    ELSE response_text

\* the if / elif / else that picks the text ask_ollama sends
Adapt(response_text) ==
    IF Len(response_text) > DiscordLimit THEN Prefix(response_text, TruncateTo) \o ELLIPSIS
    ELSE IF response_text = "" THEN MsgNoResponse
    ELSE response_text

\* AskReplies sending nothing for an empty text
AskRepliesSilentWhenEmpty(result) ==
    IF result.raised THEN <<MsgInvokeError>>
    ELSE IF result.text = "" THEN <<>>
    ELSE IF Len(result.text) > DiscordLimit THEN <<Prefix(result.text, TruncateTo) \o ELLIPSIS>>
    ELSE <<result.text>>

\* the messages an 'ask' ends with once call_ollama_api has ended with 'result':
\* the adapted text, or on_command_error's reply to a CommandInvokeError
AskReplies(result) ==
    IF result.raised THEN <<MsgInvokeError>> ELSE <<Adapt(result.text)>>

\* a lookup that ignores whose entry it reads
UserLanguagesGetAnyone(store, user_id) ==
    IF DOMAIN store = {} THEN "" ELSE store[CHOOSE v \in DOMAIN store : TRUE]

\* user_languages.get(user_id, "")
UserLanguagesGet(store, user_id) == IF user_id \in DOMAIN store THEN store[user_id] ELSE ""

\* f"{language_instruction} {SHORT_ANSWER_PROMPT} {prompt_text}".strip()
Compose(language_instruction, prompt_text) ==
    Strip(language_instruction \o " " \o SHORT_ANSWER_PROMPT \o " " \o prompt_text)

ResetKeywords == {"default", "reset", "english", "en", ""}

Instruction(language_name) == "Answer me in " \o language_name \o "."

\* the body of set_language: the store it leaves and the message it sends
set_language(store, user_id, language_name) ==
    IF \E lowered \in {Lower(language_name)} : lowered \in ResetKeywords
    THEN [store |-> [v \in DOMAIN store \ {user_id} |-> store[v]],
          reply |-> MsgLanguageReset]
    ELSE [store |-> [v \in DOMAIN store \cup {user_id} |->
                        IF v = user_id THEN Instruction(language_name) ELSE store[v]],
          reply |-> MsgLanguageSet(language_name)]

\* The commands declare their argument as '*, name: str' with no default: the
\* framework hands the handler the rest of the message stripped, and raises
\* MissingRequiredArgument, without entering the handler, when nothing is left.
ParseRest(rest) == Strip(rest)

(***************************************************************************)
(* State                                                                   *)
(***************************************************************************)
VARIABLES
    \* the dict user_languages: a function from the users that have an entry
    user_languages,
    \* the ask_ollama coroutines started so far, in the order they started
    tasks,
    \* the messages sent for the last command that ended without suspending
    \* (a 'language', or a command the dispatcher rejected)
    last,
    \* the coroutine that occupies the event loop's thread (Idle: none)
    loop

vars == <<user_languages, tasks, last, loop>>

Idle == 0

\* a future that is not done yet
NoOutcome == [kind |-> "none"]
\* response_text before call_ollama_api has ended
NoResult == [raised |-> FALSE, text |-> "", exc |-> "pending"]

\* ask_ollama up to its first suspension (entering ctx.typing())
NewTask(store, user_id, prompt_text) ==
    LET language_instruction == UserLanguagesGet(store, user_id)
    IN  [user |-> user_id,
         prompt_text |-> prompt_text,
         language_instruction |-> language_instruction,
         full_prompt |-> Compose(language_instruction, prompt_text),
         pc |-> "typing",
         payload |-> "",
         posted |-> <<>>,
         future |-> NoOutcome,
         result |-> NoResult,
         replies |-> <<>>]

\* the prompt composed again, from the store as it is once ctx.typing() is entered
PromptReadAtDispatch(task, store) ==
    Compose(UserLanguagesGet(store, task.user), task.prompt_text)

\* the prompt ask_ollama passes to call_ollama_api once ctx.typing() is entered
PromptAtDispatch(task, store) == task.full_prompt

\* requests.post called in the coroutine itself: it occupies the loop's thread
\* until the call returns
LoopHeldByCaller(t) == t

\* loop.run_in_executor + await: the call runs on a worker thread and the
\* coroutine yields, so no coroutine occupies the loop's thread afterwards
LoopAfterSubmit(t) == Idle

Init ==
    /\ user_languages = [v \in {} |-> ""]
    /\ tasks = <<>>
    /\ last = <<>>
    /\ loop = Idle

\* a user sends '<prefix>ask<rest>'; at most 'cap' handlers are started in a run
AskCommand(u, rest, cap) ==
    /\ loop = Idle
    /\ \E arg \in {ParseRest(rest)} :
          IF arg = ""
          THEN /\ last' = <<MsgMissingArgument("ask")>>
               /\ UNCHANGED <<user_languages, tasks, loop>>
          ELSE /\ Len(tasks) < cap
               /\ tasks' = Append(tasks, NewTask(user_languages, u, arg))
               /\ UNCHANGED <<user_languages, last, loop>>

\* a user sends '<prefix>language<rest>'
LanguageCommand(u, rest) ==
    /\ loop = Idle
    /\ \E arg \in {ParseRest(rest)} :
          IF arg = ""
          THEN /\ last' = <<MsgMissingArgument("language")>>
               /\ UNCHANGED <<user_languages, tasks, loop>>
          ELSE \E r \in {set_language(user_languages, u, arg)} :
                  /\ user_languages' = r.store
                  /\ last' = <<r.reply>>
                  /\ UNCHANGED <<tasks, loop>>

\* ctx.typing() is entered; call_ollama_api builds the payload and hands
\* requests.post to the executor, and the coroutine awaits its future
AskDispatch(t) ==
    /\ loop = Idle
    /\ tasks[t].pc = "typing"
    /\ tasks' = [tasks EXCEPT ![t].pc = "awaiting",
                              ![t].payload = PromptAtDispatch(tasks[t], user_languages)]
    /\ loop' = LoopAfterSubmit(t)
    /\ UNCHANGED <<user_languages, last>>

\* the executor's thread runs requests.post: the backend receives the payload
\* and the call ends with outcome o, which completes the future
BackendCall(t, o) ==
    /\ tasks[t].pc = "awaiting"
    /\ tasks[t].future = NoOutcome
    /\ tasks' = [tasks EXCEPT ![t].posted = Append(@, tasks[t].payload),
                              ![t].future = o]
    /\ UNCHANGED <<user_languages, last, loop>>

\* the coroutine resumes with the future's result: the rest of
\* call_ollama_api, then the send of ask_ollama
AskResume(t) ==
    /\ loop \in {Idle, t}
    /\ tasks[t].pc = "awaiting"
    /\ tasks[t].future # NoOutcome
    /\ \E result \in {call_ollama_api(tasks[t].future)} :
          tasks' = [tasks EXCEPT ![t].pc = "done",
                                 ![t].result = result,
                                 ![t].replies = @ \o AskReplies(result)]
    /\ loop' = Idle
    /\ UNCHANGED <<user_languages, last>>

(***************************************************************************)
(* Inputs                                                                  *)
(***************************************************************************)
Obj1(k, v) == JObj([x \in {k} |-> v])
Obj2(k1, v1, k2, v2) == JObj([x \in {k1, k2} |-> IF x = k1 THEN v1 ELSE v2])
Ok(j) == Response(200, Val(j))

\* decoded bodies of the two shapes the relay recognises, and of neither
WellFormedBodies ==
    << Obj1("message", Obj2("role", JStr("assistant"), "content", JStr("Bonjour"))),
       Obj1("message", Obj1("content", JStr("  Hi there \n"))),
       Obj2("message", Obj1("content", JStr("X")), "response", JStr("Y")),
       Obj2("message", JObj(NoFields), "response", JStr(" Y ")),
       Obj2("message", Obj1("role", JStr("assistant")), "response", JStr("Z")),
       Obj1("message", Obj1("role", JStr("assistant"))),
       Obj1("response", JStr("Y\n")),
       Obj1("foo", JStr("bar")),
       JObj(NoFields),
       Obj1("message", Obj1("content", JStr(""))),
       Obj1("message", Obj1("content", JStr(" \n\t "))),
       Obj1("response", JStr("")),
       Obj1("message", Obj1("content", JStr(Filler(DiscordLimit - 1)))),
       Obj1("message", Obj1("content", JStr(Filler(DiscordLimit)))),
       Obj1("message", Obj1("content", JStr(Filler(DiscordLimit + 1)))),
       Obj1("message", Obj1("content", JStr(" " \o Filler(DiscordLimit) \o "\n"))),
       Obj1("response", JStr(Filler(DiscordLimit + 500))) >>

\* decoded bodies that are valid JSON of another type than the code expects
IllTypedBodies ==
    << JList(<<>>),
       JList(<<JStr("foo"), JNum(1)>>),
       JList(<<JStr("message")>>),
       JList(<<JStr("response")>>),
       JNum(5),
       JNull,
       JBool(TRUE),
       JStr("plain text"),
       JStr("a message"),
       JStr("the response"),
       Obj1("message", JStr("the content")),
       Obj2("message", JStr("hello"), "response", JStr("Y")),
       Obj2("message", JNull, "response", JStr("Y")),
       Obj1("message", JList(<<JStr("content")>>)),
       Obj1("message", JNum(1)),
       Obj1("message", Obj1("content", JNum(5))),
       Obj1("message", Obj1("content", JNull)),
       Obj2("message", Obj1("content", JList(<<>>)), "response", JStr("Y")),
       Obj1("response", JNum(5)),
       Obj1("response", JNull) >>

SeqRange(q) == {q[i] : i \in 1..Len(q)}

FailureOutcomes ==
    { PostRaises("ReadTimeout"), PostRaises("ConnectTimeout"),
      PostRaises("ConnectionError"),
      Response(500, Val(Obj1("error", JStr("model not found")))),
      Response(404, Raise("requests.JSONDecodeError")),
      Response(200, Raise("requests.JSONDecodeError")),
      Response(200, Raise("json.JSONDecodeError")) }

\* every outcome of the backend call the relay specification draws from
AllOutcomes ==
    FailureOutcomes \cup {Ok(j) : j \in SeqRange(WellFormedBodies) \cup SeqRange(IllTypedBodies)}

\* the outcomes of the concurrent specification: an answer and a failure
ConcOutcomes ==
    { Ok(Obj1("message", Obj1("content", JStr("Bonjour")))),
      PostRaises("ReadTimeout") }

\* what follows the command name in the messages users send
ConcAskRests == {" hello"}
ConcLanguageRests == {" french", " default"}
RelayAskRests == {" hello", "", "  "}
PrefLanguageRests ==
    {" french", " Spanish", " japanese", " German", " en fr", " default", " reset",
     " english", " en", " EN", " Default", "  ReSeT  ", " en\n", "", "   "}

(***************************************************************************)
(* Specifications                                                          *)
(***************************************************************************)
Started == 1..Len(tasks)

\* the bot with several users and several asks in flight
Next ==
    \/ \E u \in Users, r \in ConcAskRests : AskCommand(u, r, MaxAsks)
    \/ \E u \in Users, r \in ConcLanguageRests : LanguageCommand(u, r)
    \/ \E t \in Started : AskDispatch(t)
    \/ \E t \in Started, o \in ConcOutcomes : BackendCall(t, o)
    \/ \E t \in Started : AskResume(t)

Spec == Init /\ [][Next]_vars

\* the ask pipeline on every outcome of the backend call
NextRelay ==
    \/ \E u \in Users, r \in RelayAskRests : AskCommand(u, r, RelayAsks)
    \/ \E t \in Started : AskDispatch(t)
    \/ \E t \in Started, o \in AllOutcomes : BackendCall(t, o)
    \/ \E t \in Started : AskResume(t)

SpecRelay == Init /\ [][NextRelay]_vars

\* the preference store under every spelling of the language argument
NextPref == \E u \in Users, r \in PrefLanguageRests : LanguageCommand(u, r)

SpecPref == Init /\ [][NextPref]_vars

(***************************************************************************)
(* Properties                                                              *)
(***************************************************************************)
Done == {t \in Started : tasks[t].pc = "done"}

\* the tasks whose backend call ended with a success status and a body that
\* decoded as JSON
Decoded ==
    {t \in Done : /\ tasks[t].future.kind = "response"
                  /\ ~RaiseForStatus(tasks[t].future.status)
                  /\ tasks[t].future.json.ok}

Body(t) == tasks[t].future.json.v

\* C1: whatever the backend call ended with, call_ollama_api returns a str
\* and raises nothing, so no ask ends in on_command_error's reply to a
\* failed invocation.
C1_RelayNeverRaises ==
    \A t \in Done :
        /\ ~tasks[t].result.raised
        /\ tasks[t].result.exc = ""
        /\ tasks[t].replies # <<MsgInvokeError>>

\* a body that is not an object went through the relay and came out as the
\* catch-all message
C1_Witness ==
    \E t \in Done :
        /\ tasks[t].future = Ok(JNum(5))
        /\ tasks[t].result = Returned(MsgCatchAll("TypeError"))

\* the body has a 'message' object that contains 'content'
HasMessageObjectWithContent(d) ==
    /\ d.t = "obj"
    /\ "message" \in DOMAIN d.f
    /\ d.f["message"].t = "obj"
    /\ "content" \in DOMAIN d.f["message"].f

\* the body has a top-level 'response' field
HasResponseField(d) == d.t = "obj" /\ "response" \in DOMAIN d.f

\* text is the str value v, trimmed
IsTrimmed(text, v) == v.t = "str" /\ text = Strip(v.s)

\* the precedence of the normalization, as stated for any decoded body
NormalizedByPrecedence(d, text) ==
    IF HasMessageObjectWithContent(d) THEN IsTrimmed(text, d.f["message"].f["content"])
    ELSE IF HasResponseField(d) THEN IsTrimmed(text, d.f["response"])
    ELSE text = MsgUnexpectedFormat

\* the bodies the amended C2 covers: an object whose 'message', when present,
\* is an object, and whose field selected by the precedence holds a str
ShapedAsExpected(d) ==
    /\ d.t = "obj"
    /\ "message" \in DOMAIN d.f => d.f["message"].t = "obj"
    /\ IF HasMessageObjectWithContent(d) THEN d.f["message"].f["content"].t = "str"
       ELSE HasResponseField(d) => d.f["response"].t = "str"

\* C2 as stated: for every decoded JSON body the relay returns message.content
\* trimmed if there is one, else response trimmed if there is one, else the
\* unexpected-format message.
C2_Original ==
    \A t \in Decoded : NormalizedByPrecedence(Body(t), tasks[t].result.text)

\* C2 amended: the precedence holds for every decoded body that is an object
\* whose 'message', when present, is an object and whose selected field holds
\* a str.
C2_Precedence ==
    \A t \in Decoded :
        ShapedAsExpected(Body(t)) =>
            /\ ~tasks[t].result.raised
            /\ NormalizedByPrecedence(Body(t), tasks[t].result.text)

\* message.content won over a top-level response
C2_Witness ==
    \E t \in Decoded :
        /\ Body(t) = Obj2("message", Obj1("content", JStr("X")), "response", JStr("Y"))
        /\ tasks[t].result.text = "X"

\* C3 as stated: a success status with a body that is not JSON gives the
\* 'invalid response' message.
C3_InvalidBodyMessage ==
    \A t \in Done :
        (/\ tasks[t].future.kind = "response"
         /\ ~RaiseForStatus(tasks[t].future.status)
         /\ ~tasks[t].future.json.ok)
            => tasks[t].result = Returned(MsgInvalid)

\* the exceptions requests raises when its timeout expires
IsTimeout(o) == o.kind = "raise" /\ o.exc \in {"ReadTimeout", "ConnectTimeout"}

\* C4: when the backend call times out the relay returns the fixed
\* 'timed out' message, which is what the user is sent, and raises nothing.
C4_TimeoutMessage ==
    \A t \in Done :
        IsTimeout(tasks[t].future) =>
            /\ tasks[t].result = Returned("Error: The request to the AI timed out.")
            /\ tasks[t].replies = <<"Error: The request to the AI timed out.">>

\* a connect timeout, which is also a ConnectionError, ended as a timeout
C4_Witness ==
    \E t \in Done :
        /\ tasks[t].future = PostRaises("ConnectTimeout")
        /\ tasks[t].replies = <<MsgTimeout>>

\* C5 as stated: a 'language' command whose argument, trimmed and lower-cased,
\* is a reset keyword (the empty argument included) leaves the user with no
\* stored instruction.
C5_ResetThenGet ==
    [][\A u \in Users, r \in PrefLanguageRests :
          (LanguageCommand(u, r) /\ Lower(Strip(r)) \in ResetKeywords)
              => UserLanguagesGet(user_languages', u) = ""]_vars

\* C6: the text ask sends is the first 1997 characters and "..." when the
\* relay's text is longer than 2000, the 'no response' message when it is
\* empty, and the text itself otherwise; it is never empty nor longer than
\* 2000.
C6_OutputAdaptation ==
    \A t \in Done :
        LET r == tasks[t].result.text
            m == tasks[t].replies[1]
        IN  /\ Len(tasks[t].replies) = 1
            /\ Len(r) > 2000 => m = SubSeq(r, 1, 1997) \o "..." /\ Len(m) = 2000
            /\ r = "" => m = "The AI didn't provide a response."
            /\ (r # "" /\ Len(r) <= 2000) => m = r
            /\ m # ""
            /\ Len(m) <= 2000

\* a text of 2500 characters was cut to 2000
C6_Witness ==
    \E t \in Done :
        /\ Len(tasks[t].result.text) = 2500
        /\ Len(tasks[t].replies[1]) = 2000
        /\ Prefix(tasks[t].replies[1], 1997) = Prefix(tasks[t].result.text, 1997)

\* C7: an ask calls the backend at most once, never again once it has an
\* outcome, and ends with exactly one call made and exactly one message sent;
\* it sends nothing before it ends.
C7_OneCallOneMessage ==
    \A t \in Started :
        /\ Len(tasks[t].posted) <= 1
        /\ tasks[t].future # NoOutcome => Len(tasks[t].posted) = 1
        /\ IF tasks[t].pc = "done"
           THEN Len(tasks[t].posted) = 1 /\ Len(tasks[t].replies) = 1
           ELSE tasks[t].replies = <<>>

\* an ask whose backend call failed ended with one call and one message
C7_Witness ==
    \E t \in Done :
        /\ tasks[t].future = PostRaises("ConnectionError")
        /\ Len(tasks[t].posted) = 1
        /\ tasks[t].replies = <<MsgCouldNotConnect("ConnectionError")>>

\* the step starts an ask handler
StartsAsk == Len(tasks') = Len(tasks) + 1
\* the step ends ask handler t
Ends(t) == t \in Started /\ tasks[t].pc # "done" /\ tasks'[t].pc = "done"

\* C8: an ask started by a user whose stored language is french composes a
\* prompt that contains "Answer me in french.", one started by a user with no
\* stored language composes a prompt that starts with the short-answer
\* directive and has no language instruction, and every ask ends by sending
\* the adaptation of what its own backend call ended with.
C8_PerUserPrompts ==
    [][/\ StartsAsk =>
            LET new == tasks'[Len(tasks')]
            IN  /\ (new.user \in DOMAIN user_languages
                        /\ user_languages[new.user] = "Answer me in french.")
                      => Contains(new.full_prompt, "Answer me in french.")
                /\ new.user \notin DOMAIN user_languages
                      => /\ StartsWith(new.full_prompt, SHORT_ANSWER_PROMPT)
                         /\ ~Contains(new.full_prompt, "Answer me in")
       /\ \A t \in Started :
            Ends(t) => /\ tasks'[t].result = call_ollama_api(tasks[t].future)
                       /\ tasks'[t].replies = <<Adapt(tasks'[t].result.text)>>
                       /\ tasks'[t].user = tasks[t].user
      ]_vars

\* A's ask (french) started first and still waits for the backend while B's
\* (no language) has been answered from its own call
C8_Witness ==
    \E a, b \in Started :
        /\ a < b
        /\ tasks[a].user # tasks[b].user
        /\ tasks[a].prompt_text = "hello" /\ tasks[b].prompt_text = "hello"
        /\ Contains(tasks[a].full_prompt, "Answer me in french.")
        /\ StartsWith(tasks[b].full_prompt, SHORT_ANSWER_PROMPT)
        /\ tasks[a].pc = "awaiting" /\ tasks[a].future = NoOutcome
        /\ tasks[b].pc = "done" /\ tasks[b].replies = <<"Bonjour">>
        /\ tasks[b].user \notin DOMAIN user_languages

\* the asks suspended at the backend call whose call has not returned
InFlight == {t \in Started : tasks[t].pc = "awaiting" /\ tasks[t].future = NoOutcome}
\* the asks suspended at the backend call whose call has returned
Ready == {t \in Started : tasks[t].pc = "awaiting" /\ tasks[t].future # NoOutcome}

\* C9: while an ask is suspended at a backend call that has not returned, the
\* dispatcher can process a 'language' command, start another ask (as long as
\* the run may start one), and answer every ask whose call has returned.
C9_DispatcherNotBlocked ==
    InFlight # {} =>
        /\ \A u \in Users : ENABLED LanguageCommand(u, " french")
        /\ Len(tasks) < MaxAsks => \A u \in Users : ENABLED AskCommand(u, " hello", MaxAsks)
        /\ \A t \in Started : tasks[t].pc = "typing" => ENABLED AskDispatch(t)
        /\ \A t \in Ready : ENABLED AskResume(t)

\* an ask started later was answered, and its user's language was changed,
\* while an earlier ask still waits for its backend call
C9_Witness ==
    \E a \in InFlight, b \in Done :
        /\ a < b
        /\ tasks[a].user # tasks[b].user
        /\ UserLanguagesGet(user_languages, tasks[a].user) # tasks[a].language_instruction

\* C10: an ask composes its prompt from the instruction stored for its user
\* when its handler starts; that prompt never changes afterwards, it is the
\* prompt the backend receives, and a 'language' command leaves every started
\* ask as it is.
C10_PromptFixedAtStart ==
    [][/\ StartsAsk =>
            LET new == tasks'[Len(tasks')]
            IN  /\ new.language_instruction = UserLanguagesGet(user_languages, new.user)
                /\ new.full_prompt = Compose(new.language_instruction, new.prompt_text)
       /\ \A t \in Started :
            /\ tasks'[t].full_prompt = tasks[t].full_prompt
            /\ tasks'[t].posted # tasks[t].posted
                  => tasks'[t].posted = <<tasks[t].full_prompt>>
       /\ user_languages' # user_languages => \A t \in Started : tasks'[t] = tasks[t]
      ]_vars

\* the backend received the prompt composed at the start although the user's
\* stored language has changed since
C10_Witness ==
    \E t \in Ready :
        /\ tasks[t].language_instruction = "Answer me in french."
        /\ tasks[t].user \notin DOMAIN user_languages
        /\ tasks[t].posted = <<"Answer me in french. " \o SHORT_ANSWER_PROMPT \o " hello">>

=============================================================================
